---- MODULE Spec2Model ----
(***************************************************************************)
(* The custom event emitter of src/L5_events_and_emitters/emitter.js:      *)
(* a constructor that creates an empty `events` object, `on` that appends  *)
(* a listener to the array stored under an event type, and `emit` that     *)
(* walks that array with forEach and calls every listener with no          *)
(* arguments.  A caller issues one call at a time; a listener runs inside  *)
(* the forEach of the emit that invoked it and may call back into the      *)
(* same emitter.                                                           *)
(*                                                                         *)
(* The module also holds the other programs of the lessons, each with its  *)
(* own variables and specification: the routing HTTP server of             *)
(* src/L8_http_server/app2.js (SpecRoute), the POST /submit server listed  *)
(* in src/L9_post_requests_and_json/readme.md (SpecSubmit), the write and  *)
(* append of src/L6_fs_module/app.js (SpecFs) and the two upload           *)
(* applications of src/Multer/app.js (SpecUpload).                         *)
(***************************************************************************)
EXTENDS Integers, Sequences, FiniteSets, TLC

\* Total number of listener entries the emitter may hold in a run.
MaxListeners == 3

\* Event types used by the callers.  "toString" is a name every plain
\* object inherits from Object.prototype.
EventIds == {"greet", "error", "toString"}

\* Property names that the object literal {} of the constructor inherits.
ProtoKeys == {"toString"}

\* Listener functions the callers register (by reference):
\*   f1, f2  return normally
\*   boom    throws
\*   adder   calls on(<the type it is registered under>, f2)
\*   firer   calls emit(FireTarget)
Callbacks == {"f1", "f2", "boom", "adder", "firer"}
FireTarget == "greet"

\* Argument lists a caller passes to emit after the event type.
ArgLists == {<<>>, <<1, 2, 3>>}

\* Listeners registered on the second instance.
PeerCallbacks == {"f1", "f2"}

\* Listeners registered by the caller that tries the methods the prototype lacks.
ApiCallbacks == {"f1", "f2", "boom"}

\* Listeners a caller passes to a method the prototype lacks.
UndefCallbacks == {"f1"}

\* Methods a caller may try to invoke on an emitter instance.
MethodNames == {"on", "emit", "once", "removeListener", "removeAllListeners"}

VARIABLES
    events,     \* this.events: own properties of the registry object
    stack,      \* active forEach loops, innermost last
    call,       \* the caller's current or last call on the emitter
    outcome,    \* "idle", "running", "returned" or "threw" for that call
    error,      \* what was thrown out of that call ("none" if nothing)
    ret,        \* the value that call returned ("none" while it has not)
    log,        \* listener invocations made during that call, in order
    snap,       \* the array under call.type when the call began
    registered, \* per type, the listeners of the on calls that returned, in call order
    regAtCall,  \* registered[call.type] when the call began
    late,       \* per type, positions appended by a listener since the type was last emitted by the caller
    carried,    \* late[call.type] when the call began
    tried,      \* the caller's latest call of a method the prototype lacks
    everInvoked,\* a listener has been invoked at some time
    onlyOn,     \* every call so far was a call of on
    pending,    \* positions in log of the listeners that have begun and not yet finished, innermost last
    nests,      \* the emits made by listeners during that call: the position in log of the listener, the array it found
    before,     \* this.events of the first instance when the call began
    afterAbort, \* the call is an emit of the type whose emit, the call before, a listener aborted
    peer,       \* this.events of a second instance made by the same constructor
    self,       \* the instance the call was made on: "A" (events) or "B" (peer)
    peerRegistered, \* as registered, for the second instance
    responses,  \* the routing HTTP server: the requests served so far, each with its response
    sreq,       \* the POST server: method, url and phase of the request being served
    wire,       \* the chunks of its body that have not arrived yet
    sent,       \* the chunks of its body as the client sent them
    got,        \* the chunks the 'data' listener received, in order
    body,       \* the handler's variable body
    sres,       \* its response object
    crashed,    \* an exception left a listener of the POST server uncaught
    nserved,    \* number of requests the POST server has accepted
    file,       \* the fs script: input.txt (whether it exists, its characters)
    wpc,        \* the next step of the fs.writeFile operation
    apc,        \* the next step of the fs.appendFile operation
    wpos,       \* the file position of the descriptor writeFile opened
    runs,       \* number of times the fs script has been started
    variant,    \* the Multer application that was started: "none", "config" or "inline"
    up,         \* the POST /upload requests by order of arrival: the MIME type of the file, the phase
    filterCalls,\* per request, the calls of the file filter's callback: error and verdict
    ures,       \* per request, the response ("none" as its sender while there is none)
    stored,     \* the MIME types of the files written to the uploads directory
    nuploads    \* number of POST /upload requests accepted

hist == <<pending, nests, before, afterAbort>>
second == <<peer, self, peerRegistered>>

\* The state of the other programs of the repository, which the emitter
\* never touches.
submit == <<sreq, wire, sent, got, body, sres, crashed, nserved>>
fsys == <<file, wpc, apc, wpos, runs>>
multer == <<variant, up, filterCalls, ures, stored, nuploads>>
others == <<responses, submit, fsys, multer>>

vars == <<events, stack, call, outcome, error, ret, log, snap, registered,
          regAtCall, late, carried, tried, everInvoked, onlyOn, hist, second,
          others>>

\* The state of the emitter instances, which the other programs never touch.
emitter == <<events, stack, call, outcome, error, ret, log, snap, registered,
             regAtCall, late, carried, tried, everInvoked, onlyOn, hist, second>>

----------------------------------------------------------------------------
(* Values stored under a key of this.events *)

NoKey == [tag |-> "nokey", arr |-> <<>>]
FnVal == [tag |-> "function", arr |-> <<>>]
ArrayOf(s) == [tag |-> "array", arr |-> s]

\* this.events[type]: an own property, else what Object.prototype supplies,
\* else undefined (NoKey).
Get(ev, type) ==
    IF ev[type].tag # "nokey" THEN ev[type]
    ELSE IF type \in ProtoKeys THEN FnVal
    ELSE NoKey

Truthy(v) == v.tag # "nokey"

\* function Emitter() { this.events = {} }
Emitter == [e \in EventIds |-> NoKey]

\* A constructor whose instances all use one events object (events kept on
\* the prototype instead of on this).
ObjShared(inst) == "A"

\* The object that this.events of an instance refers to: the constructor
\* makes a new one for every instance.
ObjOf(inst) == inst

\* this.events of an instance.
Registry(inst) == IF ObjOf(inst) = "A" THEN events ELSE peer

RECURSIVE SumLen(_, _)
SumLen(ev, S) ==
    IF S = {} THEN 0
    ELSE LET e == CHOOSE x \in S : TRUE
         IN Len(ev[e].arr) + SumLen(ev, S \ {e})

Total(ev) == SumLen(ev, EventIds)

TotalAll == Total(events) + Total(peer)

Range(s) == {s[i] : i \in 1..Len(s)}

Count(s, cb) == Cardinality({i \in 1..Len(s) : s[i] = cb})

IsPrefix(s, t) == Len(s) <= Len(t) /\ SubSeq(t, 1, Len(s)) = s

----------------------------------------------------------------------------
(* Emitter.prototype.on *)

\* this.events[type] = this.events[type] || [];
OnEnsure(ev, type) ==
    LET v == Get(ev, type)
    IN [ev EXCEPT ![type] = IF Truthy(v) THEN v ELSE ArrayOf(<<>>)]

\* A push that puts the listener in front instead of at the end.
OnPushFront(s, cb) == <<cb>> \o s

\* this.events[type].push(eventListener);
OnPush(s, cb) == Append(s, cb)

\* An on that keeps one entry per listener.
OnUnique(ev, type, cb) ==
    LET ev1 == OnEnsure(ev, type)
    IN IF ev1[type].tag # "array" THEN [events |-> ev1, error |-> "TypeError"]
       ELSE IF Count(ev1[type].arr, cb) > 0 THEN [events |-> ev1, error |-> "none"]
       ELSE [events |-> [ev1 EXCEPT ![type] = ArrayOf(OnPush(ev1[type].arr, cb))],
             error  |-> "none"]

\* An on that pushes the listener on every array of the registry.
OnEverywhere(ev, type, cb) ==
    LET ev1 == OnEnsure(ev, type)
    IN IF ev1[type].tag # "array" THEN [events |-> ev1, error |-> "TypeError"]
       ELSE [events |-> [e \in EventIds |->
                            IF ev1[e].tag = "array"
                            THEN ArrayOf(OnPush(ev1[e].arr, cb)) ELSE ev1[e]],
             error  |-> "none"]

\* The whole of on: the registry afterwards and what was thrown.
On(ev, type, cb) ==
    LET ev1 == OnEnsure(ev, type)
    IN IF ev1[type].tag = "array"
       THEN [events |-> [ev1 EXCEPT ![type] = ArrayOf(OnPush(ev1[type].arr, cb))],
             error  |-> "none"]
       ELSE [events |-> ev1, error |-> "TypeError"]

\* Methods that Emitter.prototype defines.
Methods == {"on", "emit"}

----------------------------------------------------------------------------
(* Emitter.prototype.emit *)

\* An emit that, like on, first stores an array under a type that has none.
EmitStoreEnsure(ev, type) == OnEnsure(ev, type)

\* What emit itself stores in this.events: nothing (lines 16-22 only read
\* this.events[type]).
EmitStore(ev, type) == ev

\* An emit that treats "error" as having something to dispatch always.
EmitGuardError(ev, type) == type = "error" \/ Truthy(Get(ev, type))

\* if (this.events[type])
EmitGuard(ev, type) == Truthy(Get(ev, type))

\* forEach fixes the number of elements it visits before the first call.
ForEachLen(s) == Len(s)

\* listner(): the argument list the listener receives.
ListenerArgs(args) == <<>>

\* A loop that reads the array's length again on every iteration.
BoundLive(f) == Len(events[f.type].arr)

\* The iteration stops at that number, whatever the array has become.
Bound(f) == f.len

\* An emit that catches what a listener throws and goes on.
UnwindCaught(st) == st

\* No try/catch around listner(): a throw leaves every active forEach.
Unwind(st) == <<>>

\* An on that calls the listener as it registers it.
OnInvokesEager(type, cb) == <<[cb |-> cb, type |-> type, args |-> <<>>, depth |-> 0]>>

\* The listener invocations that on itself makes: none.
OnInvokes(type, cb) == <<>>

\* An emit that hands the loop to a timer and returns at once.
EmitDetached == "returned"

\* The caller's emit is still running once forEach has started.
EmitRunning == "running"

\* An emit that takes up the loop where the aborted one stopped.
FrameResume(type, s, args) ==
    [type |-> type,
     k    |-> IF outcome = "threw" /\ Len(log) < Len(s) THEN Len(log)
              ELSE IF outcome = "threw" THEN Len(s) ELSE 0,
     len  |-> ForEachLen(s), args |-> args]

\* forEach starts at the first element, on every call of emit.
Frame(type, s, args) == [type |-> type, k |-> 0, len |-> ForEachLen(s), args |-> args]

\* A forEach that moves on by two.
AdvanceTwo(k) == k + 2

\* forEach moves on to the next element after each call.
Advance(k) == k + 1

\* An emit inside a listener that is queued to run after the loops that
\* are active.
NestDeferred(st, fr) == <<fr>> \o st

\* A listener's emit is an ordinary call: its forEach runs on top of the
\* loop that invoked the listener, which resumes when it returns.
Nest(st, fr) == Append(st, fr)


Top == stack[Len(stack)]

Invocation(cb, f) ==
    [cb |-> cb, type |-> f.type, args |-> ListenerArgs(f.args), depth |-> Len(stack)]

\* Listener entries a pass over `type` can add before it ends.
Adds(ev, type) ==
    Count(ev[type].arr, "adder")
    + Count(ev[type].arr, "firer") * Count(ev[FireTarget].arr, "adder")

----------------------------------------------------------------------------
(* What the caller observes *)

\* The listeners invoked by the forEach of the caller's own emit, in order.
PassCbs ==
    LET idx == {i \in 1..Len(log) : log[i].depth = 1}
        f[n \in 0..Len(log)] ==
            IF n = 0 THEN <<>>
            ELSE IF n \in idx THEN Append(f[n - 1], log[n].cb)
            ELSE f[n - 1]
    IN f[Len(log)]

NoTry == [op |-> "none", type |-> "greet", cb |-> "f1", n |-> 0, fires |-> 0, had |-> 0]

\* The caller's latest attempt after one more call of emit(type); the
\* emits are counted for the attempts whose effect an emit would show.
Fired(t, type) ==
    IF t.op \in {"once", "removeAllListeners"} /\ t.type = type /\ t.fires < 2
    THEN [t EXCEPT !.fires = t.fires + 1]
    ELSE t

----------------------------------------------------------------------------
(* The routing HTTP server of src/L8_http_server/app2.js (lines 1-45) *)

\* Request URLs the clients send.
Urls == {"/", "/api/user", "/login", "/signup", "/missing"}

\* Number of requests served in a run.
MaxRequests == 3

\* A fresh ServerResponse: no head written, not ended.
NewRes == [status |-> 0, ctype |-> "", body |-> "", heads |-> 0, ends |-> 0]

\* res.writeHead(status, {"content-type": ctype}).
WriteHead(res, status, ctype) ==
    [res EXCEPT !.status = status, !.ctype = ctype, !.heads = @ + 1]

\* A handler whose branches forget to end the response.
EndNever(res, data) == res

\* res.end(body).
End(res, data) == [res EXCEPT !.body = data, !.ends = @ + 1]

\* JSON.stringify(user) of lines 11-20.
UserJson == "{\"name\":\"Anjan\",\"age\":22,\"email\":\"anjan@example.com\"}"

\* The strings the handler compares req.url with (lines 4, 10, 23, 28).
Routes == {"/", "/api/user", "/login", "signup"}

\* The request handler passed to createServer (lines 3-39).
Handler(url) ==
    IF url = "/" THEN End(WriteHead(NewRes, 200, "text/plain"), "Home")
    ELSE IF url = "/api/user"
         THEN End(WriteHead(NewRes, 200, "application/json"), UserJson)
    ELSE IF url = "/login"
         THEN End(WriteHead(NewRes, 200, "text/plain"), "Login Page")
    ELSE IF url = "signup"
         THEN End(WriteHead(NewRes, 200, "text/plain"), "Signup Page")
    ELSE End(WriteHead(NewRes, 404, "text/html"), "<h1>404 Page Not Found</h1>")

\* A request for url arrives and the handler runs.
Request(url) ==
    /\ Len(responses) < MaxRequests
    /\ responses' = Append(responses, [url |-> url, res |-> Handler(url)])
    /\ UNCHANGED <<emitter, submit, fsys, multer>>

----------------------------------------------------------------------------
(* The POST /submit server of src/L9_post_requests_and_json/readme.md      *)
(* (listing of lines 270-310)                                              *)

\* Number of requests the server accepts in a run, and of chunks in a body.
MaxSubmits == 2
MaxChunks == 2

HttpMethods == {"GET", "POST"}
SubmitUrls == {"/submit", "/other"}

\* Chunks (Buffers, as byte sequences) a request body is made of:
\* the bytes of "{", "}" and "1".
ChunkSet == {<<123>>, <<125>>, <<49>>, <<123, 125>>}

RECURSIVE SeqsUpTo(_, _)
SeqsUpTo(S, n) ==
    IF n = 0 THEN {<<>>}
    ELSE LET shorter == SeqsUpTo(S, n - 1)
         IN shorter \cup {Append(q, x) : q \in shorter, x \in S}

Bodies == SeqsUpTo(ChunkSet, MaxChunks)

\* The character a byte decodes to (UTF-8, one-byte characters).
CharOf(b) == IF b = 123 THEN "{" ELSE IF b = 125 THEN "}" ELSE "1"

\* chunk.toString(): the characters of the bytes, in order.
ChunkToString(chunk) == [i \in 1..Len(chunk) |-> CharOf(chunk[i])]

\* A 'data' listener that keeps only the chunk that arrived last.
AccumulateLast(text, chunk) == ChunkToString(chunk)

\* body += chunk.toString()
Accumulate(text, chunk) == text \o ChunkToString(chunk)

\* JSON.parse(text) returns (TRUE) or throws SyntaxError (FALSE), for texts
\* over the characters above: the empty object and the numbers 1, 11, ...
\* are JSON texts, nothing else is.
JsonParses(text) ==
    \/ text = <<"{", "}">>
    \/ /\ text # <<>>
       /\ \A i \in 1..Len(text) : text[i] = "1"

\* The object the 'end' listener stringifies into the response.
Received(text) ==
    [success |-> TRUE, message |-> "Form data received successfully", data |-> text]

NotFound == [message |-> "Not Found", success |-> FALSE]

NoReq == [method |-> "GET", url |-> "/other", phase |-> "none"]

IsSubmit(method, url) == method = "POST" /\ url = "/submit"

\* A request arrives and the handler passed to createServer runs: for
\* POST /submit it sets body to "" and registers the two listeners, for
\* anything else it answers 404 at once.
Arrive(method, url, chunks) ==
    /\ ~crashed
    /\ sreq.phase \in {"none", "done"}
    /\ nserved < MaxSubmits
    /\ nserved' = nserved + 1
    /\ got' = <<>>
    /\ body' = <<>>
    /\ IF IsSubmit(method, url)
       THEN /\ sreq' = [method |-> method, url |-> url, phase |-> "open"]
            /\ wire' = chunks
            /\ sent' = chunks
            /\ sres' = NewRes
       ELSE /\ chunks = <<>>
            /\ sreq' = [method |-> method, url |-> url, phase |-> "done"]
            /\ wire' = <<>>
            /\ sent' = <<>>
            /\ sres' = End(WriteHead(NewRes, 404, "text/plain"), NotFound)
    /\ UNCHANGED <<crashed, emitter, responses, fsys, multer>>

\* The next chunk arrives: the 'data' listener runs.
Data ==
    /\ sreq.phase = "open"
    /\ wire # <<>>
    /\ body' = Accumulate(body, Head(wire))
    /\ got' = Append(got, Head(wire))
    /\ wire' = Tail(wire)
    /\ UNCHANGED <<sreq, sent, sres, crashed, nserved, emitter, responses, fsys, multer>>

\* The body is complete: the 'end' listener runs.  JSON.parse(body) is
\* evaluated before the head is written; what it throws is caught nowhere.
EndEvent ==
    /\ sreq.phase = "open"
    /\ wire = <<>>
    /\ IF JsonParses(body)
       THEN /\ sres' = End(WriteHead(sres, 200, "application/json"), Received(body))
            /\ sreq' = [sreq EXCEPT !.phase = "done"]
            /\ UNCHANGED crashed
       ELSE /\ crashed' = TRUE
            /\ sreq' = [sreq EXCEPT !.phase = "ended"]
            /\ UNCHANGED sres
    /\ UNCHANGED <<wire, sent, got, body, nserved, emitter, responses, fsys, multer>>

----------------------------------------------------------------------------
(* The write and append of src/L6_fs_module/app.js (lines 28-39) *)

\* Number of times the script is run on the same directory.
MaxRuns == 4

\* The text passed to fs.writeFile (line 28) and the longer text passed to
\* fs.appendFile (line 35), as characters.
WriteText == <<"w", "w">>
AppendText == <<"a", "a", "a">>

NoFile == [exists |-> FALSE, data |-> <<>>]

\* open(path, 'w'): the file is created or truncated.
OpenW(f) == [exists |-> TRUE, data |-> <<>>]

\* open(path, 'a'): the file is created if it does not exist and kept as it is
\* if it does.
OpenA(f) == [exists |-> TRUE, data |-> f.data]

\* write(fd, text) on a descriptor opened with 'w', at file position pos:
\* the characters replace those at pos+1.. and the file grows if needed.
WriteAt(f, pos, text) ==
    LET n == Len(text)
        old == f.data
    IN [f EXCEPT !.data =
           [i \in 1..(IF pos + n > Len(old) THEN pos + n ELSE Len(old)) |->
               IF i > pos /\ i <= pos + n THEN text[i - pos] ELSE old[i]]]

\* write(fd, text) on a descriptor opened with 'a': the characters go to the
\* end of the file as it is at the time of the write.
WriteEnd(f, text) == [f EXCEPT !.data = @ \o text]

\* The script runs: lines 28-39 queue the two operations one after the other
\* and return; neither waits for the other's callback.
Run ==
    /\ wpc \in {"idle", "done"}
    /\ apc \in {"idle", "done"}
    /\ runs < MaxRuns
    /\ runs' = runs + 1
    /\ wpc' = "open"
    /\ apc' = "open"
    /\ wpos' = 0
    /\ UNCHANGED <<file, emitter, responses, submit, multer>>

\* The steps of fs.writeFile(path, text, cb): open with 'w', write, close,
\* callback, each a request of its own to the thread pool.
WOpen ==
    /\ wpc = "open"
    /\ file' = OpenW(file)
    /\ wpos' = 0
    /\ wpc' = "write"
    /\ UNCHANGED <<apc, runs, emitter, responses, submit, multer>>

WWrite ==
    /\ wpc = "write"
    /\ file' = WriteAt(file, wpos, WriteText)
    /\ wpos' = wpos + Len(WriteText)
    /\ wpc' = "close"
    /\ UNCHANGED <<apc, runs, emitter, responses, submit, multer>>

WClose ==
    /\ wpc = "close"
    /\ wpc' = "done"
    /\ UNCHANGED <<file, apc, wpos, runs, emitter, responses, submit, multer>>

\* The steps of fs.appendFile(path, text, cb): open with 'a', write, close,
\* callback.
AOpen ==
    /\ apc = "open"
    /\ file' = OpenA(file)
    /\ apc' = "write"
    /\ UNCHANGED <<wpc, wpos, runs, emitter, responses, submit, multer>>

AWrite ==
    /\ apc = "write"
    /\ file' = WriteEnd(file, AppendText)
    /\ apc' = "close"
    /\ UNCHANGED <<wpc, wpos, runs, emitter, responses, submit, multer>>

AClose ==
    /\ apc = "close"
    /\ apc' = "done"
    /\ UNCHANGED <<file, wpc, wpos, runs, emitter, responses, submit, multer>>

----------------------------------------------------------------------------
(* The upload applications of src/Multer/app.js: the one that imports       *)
(* upload from config/multerconfig.js (lines 1-29) and the one that defines *)
(* storage, fileFilter and upload itself (lines 30-94)                      *)

Variants == {"config", "inline"}

\* Number of POST /upload requests served in a run.
MaxUploads == 2

\* MIME types of the files the clients upload in the field "image"; "none"
\* is a request without a file.
MimeTypes == {"image/jpg", "image/jpeg", "image/png", "text/plain"}
Uploads == MimeTypes \cup {"none"}

\* allowedMimeTypes of fileFilter (app.js line 59).
AllowedMimeTypes == {"image/jpg", "image/jpeg"}

NoResponse == [status |-> 0, by |-> "none"]

\* fileFilter of app.js lines 58-67: the arguments it calls cb with.
FileFilter(mimetype) ==
    IF mimetype \in AllowedMimeTypes
    THEN [err |-> "null", accept |-> TRUE]
    ELSE [err |-> "Error: Only .jpg and .jpeg files are allowed!", accept |-> FALSE]

\* The filter multer uses when the options name none: every file is accepted.
AllowAll(mimetype) == [err |-> "null", accept |-> TRUE]

\* The filter of the upload object the application passes to the route:
\* multer({storage}) in multerconfig.js line 20, multer({storage, fileFilter,
\* limits}) in app.js lines 69-76.
UploadFilter(v, mimetype) ==
    IF v = "inline" THEN FileFilter(mimetype) ELSE AllowAll(mimetype)

\* res.render("test") of line 89: the page, or an error page when the view
\* cannot be rendered (ok is whether it can).
RouteResponseRender(v, ok) ==
    IF ok THEN [status |-> 200, by |-> "handler"]
    ELSE [status |-> 500, by |-> "handler"]

\* What the route handler sends: app.js line 24 only logs req.file, line 89
\* renders the view "test".
RouteResponse(v, ok) ==
    IF v = "inline" THEN RouteResponseRender(v, ok) ELSE NoResponse

\* node app.js: one of the two applications starts listening.
Start(v) ==
    /\ variant = "none"
    /\ variant' = v
    /\ UNCHANGED <<up, filterCalls, ures, stored, nuploads, emitter, responses,
                   submit, fsys>>

\* The requests that have arrived, by order of arrival, and the ones a run
\* may see.
UploadIds == 1..Len(up)
UploadSlots == 1..MaxUploads

\* A POST /upload arrives and upload.single("image") starts reading it;
\* requests that arrived earlier may still be in progress.
Upload(mimetype) ==
    /\ variant # "none"
    /\ nuploads < MaxUploads
    /\ nuploads' = nuploads + 1
    /\ up' = Append(up, [mimetype |-> mimetype,
                         phase |-> IF mimetype = "none" THEN "route" ELSE "filter"])
    /\ filterCalls' = Append(filterCalls, <<>>)
    /\ ures' = Append(ures, NoResponse)
    /\ UNCHANGED <<variant, stored, emitter, responses, submit, fsys>>

\* multer finds the file part of request id and calls the file filter; a
\* rejection goes to next(err) and the default error handler of Express
\* answers 500.
Filter(id) ==
    /\ id \in UploadIds
    /\ up[id].phase = "filter"
    /\ LET r == UploadFilter(variant, up[id].mimetype)
       IN /\ filterCalls' = [filterCalls EXCEPT ![id] = Append(@, r)]
          /\ IF r.accept
             THEN /\ up' = [up EXCEPT ![id].phase = "store"]
                  /\ UNCHANGED ures
             ELSE /\ up' = [up EXCEPT ![id].phase = "failed"]
                  /\ ures' = [ures EXCEPT ![id] = [status |-> 500, by |-> "error handler"]]
    /\ UNCHANGED <<variant, stored, nuploads, emitter, responses, submit, fsys>>

\* The disk storage is asked to store the file of request id: destination
\* calls back at once, filename calls crypto.randomBytes(12, callback) and
\* returns to the event loop; nothing is written yet.
StoreAskName(id) ==
    /\ id \in UploadIds
    /\ up[id].phase = "store"
    /\ up' = [up EXCEPT ![id].phase = "naming"]
    /\ UNCHANGED <<variant, filterCalls, ures, stored, nuploads, emitter,
                   responses, submit, fsys>>

\* On a later turn of the event loop the callback of randomBytes runs: it
\* builds the name and calls cb(null, fn); the file is written, multer sets
\* req.file and calls next().
StoreNamed(id) ==
    /\ id \in UploadIds
    /\ up[id].phase = "naming"
    /\ stored' = Append(stored, up[id].mimetype)
    /\ up' = [up EXCEPT ![id].phase = "route"]
    /\ UNCHANGED <<variant, filterCalls, ures, nuploads, emitter, responses,
                   submit, fsys>>

\* The route handler runs for request id and returns.
Route(id) ==
    /\ id \in UploadIds
    /\ up[id].phase = "route"
    /\ \E ok \in BOOLEAN : ures' = [ures EXCEPT ![id] = RouteResponse(variant, ok)]
    /\ up' = [up EXCEPT ![id].phase = "handled"]
    /\ UNCHANGED <<variant, filterCalls, stored, nuploads, emitter, responses,
                   submit, fsys>>

----------------------------------------------------------------------------
Init ==
    /\ events = Emitter
    /\ stack = <<>>
    /\ call = [op |-> "none", type |-> "greet", cb |-> "f1", args |-> <<>>]
    /\ outcome = "idle"
    /\ error = "none"
    /\ ret = "none"
    /\ log = <<>>
    /\ snap = <<>>
    /\ registered = [e \in EventIds |-> <<>>]
    /\ regAtCall = <<>>
    /\ late = [e \in EventIds |-> {}]
    /\ carried = {}
    /\ tried = NoTry
    /\ everInvoked = FALSE
    /\ onlyOn = TRUE
    /\ pending = <<>>
    /\ nests = <<>>
    /\ before = Emitter
    /\ afterAbort = FALSE
    /\ peer = Emitter
    /\ self = "A"
    /\ peerRegistered = [e \in EventIds |-> <<>>]
    /\ responses = <<>>
    /\ sreq = NoReq
    /\ wire = <<>>
    /\ sent = <<>>
    /\ got = <<>>
    /\ body = <<>>
    /\ sres = NewRes
    /\ crashed = FALSE
    /\ nserved = 0
    /\ file = NoFile
    /\ wpc = "idle"
    /\ apc = "idle"
    /\ wpos = 0
    /\ runs = 0
    /\ variant = "none"
    /\ up = <<>>
    /\ filterCalls = <<>>
    /\ ures = <<>>
    /\ stored = <<>>
    /\ nuploads = 0

\* emitter.on(type, cb) called by the owner of the emitter.
CallOn(type, cb) ==
    /\ stack = <<>>
    /\ TotalAll < MaxListeners
    /\ ~(cb = "firer" /\ type = FireTarget)
    /\ LET r == On(events, type, cb)
       IN /\ events' = r.events
          /\ error' = r.error
          /\ outcome' = IF r.error = "none" THEN "returned" ELSE "threw"
          /\ ret' = IF r.error = "none" THEN "undefined" ELSE "none"
          /\ registered' = IF r.error = "none"
                           THEN [registered EXCEPT ![type] = Append(@, cb)]
                           ELSE registered
    /\ call' = [op |-> "on", type |-> type, cb |-> cb, args |-> <<>>]
    /\ log' = OnInvokes(type, cb)
    /\ everInvoked' = (everInvoked \/ OnInvokes(type, cb) # <<>>)
    /\ snap' = events[type].arr
    /\ regAtCall' = registered[type]
    /\ carried' = {}
    /\ before' = events
    /\ afterAbort' = FALSE
    /\ self' = "A"
    /\ UNCHANGED others
    /\ UNCHANGED <<stack, late, tried, onlyOn, pending, nests, peer, peerRegistered>>

\* emitter.emit(type, ...args) called by the owner of the emitter.
CallEmit(type, args) ==
    /\ stack = <<>>
    /\ TotalAll + Adds(events, type) <= MaxListeners
    /\ call' = [op |-> "emit", type |-> type, cb |-> "f1", args |-> args]
    /\ before' = events
    /\ afterAbort' = (self = "A" /\ call.op = "emit" /\ call.type = type
                        /\ outcome = "threw" /\ error = "Error")
    /\ self' = "A"
    /\ nests' = <<>>
    /\ log' = <<>>
    /\ snap' = events[type].arr
    /\ regAtCall' = registered[type]
    /\ carried' = late[type]
    /\ late' = [late EXCEPT ![type] = {}]
    /\ tried' = Fired(tried, type)
    /\ onlyOn' = FALSE
    /\ IF ~EmitGuard(events, type)
       THEN /\ outcome' = "returned"
            /\ error' = "none"
            /\ ret' = "undefined"
            /\ UNCHANGED stack
       ELSE IF Get(events, type).tag # "array"
       THEN /\ outcome' = "threw"
            /\ error' = "TypeError"
            /\ ret' = "none"
            /\ UNCHANGED stack
       ELSE /\ outcome' = EmitRunning
            /\ error' = "none"
            /\ ret' = "none"
            /\ stack' = <<Frame(type, events[type].arr, args)>>
    /\ events' = EmitStore(events, type)
    /\ UNCHANGED others
    /\ UNCHANGED <<registered, everInvoked, pending, peer, peerRegistered>>

\* One iteration of forEach in the innermost loop: the next listener is
\* called and runs.
Invoke ==
    /\ stack # <<>>
    /\ Top.k < Bound(Top)
    /\ LET f  == Top
           cb == Registry(self)[f.type].arr[f.k + 1]
           st == [stack EXCEPT ![Len(stack)].k = Advance(f.k)]
       IN /\ log' = Append(log, Invocation(cb, f))
          /\ everInvoked' = TRUE
          /\ CASE cb = "boom" ->
                    /\ stack' = Unwind(st)
                    /\ outcome' = "threw"
                    /\ error' = "Error"
                    /\ pending' = <<>>
                    /\ UNCHANGED <<events, registered, late, nests>>
               [] cb = "adder" ->
                    LET r == On(events, f.type, "f2")
                    IN /\ events' = r.events
                       /\ IF r.error = "none"
                          THEN /\ stack' = st
                               /\ registered' = [registered EXCEPT ![f.type] = Append(@, "f2")]
                               /\ late' = [late EXCEPT ![f.type] = @ \cup {Len(registered[f.type]) + 1}]
                               /\ UNCHANGED <<outcome, error, pending, nests>>
                          ELSE /\ stack' = Unwind(st)
                               /\ outcome' = "threw"
                               /\ error' = r.error
                               /\ pending' = <<>>
                               /\ UNCHANGED <<registered, late, nests>>
               [] cb = "firer" ->
                    /\ UNCHANGED <<events, outcome, error, registered, late>>
                    /\ IF ~EmitGuard(events, FireTarget)
                       THEN /\ stack' = st
                            /\ UNCHANGED <<pending, nests>>
                       ELSE /\ stack' = Nest(st, Frame(FireTarget, events[FireTarget].arr, <<>>))
                            /\ pending' = Append(pending, Len(log) + 1)
                            /\ nests' = Append(nests, [at   |-> Len(log) + 1,
                                                       snap |-> events[FireTarget].arr])
               [] OTHER ->
                    /\ stack' = st
                    /\ UNCHANGED <<events, outcome, error, registered, late, pending, nests>>
    /\ UNCHANGED others
    /\ UNCHANGED <<call, ret, snap, regAtCall, carried, tried, onlyOn, before,
                   afterAbort, second>>

\* forEach has visited its elements: the innermost emit returns.
Return ==
    /\ stack # <<>>
    /\ Top.k = Bound(Top)
    /\ stack' = SubSeq(stack, 1, Len(stack) - 1)
    /\ outcome' = IF Len(stack) = 1 THEN "returned" ELSE outcome
    /\ ret' = IF Len(stack) = 1 THEN "undefined" ELSE ret
    /\ pending' = IF pending = <<>> THEN pending
                  ELSE SubSeq(pending, 1, Len(pending) - 1)
    /\ UNCHANGED others
    /\ UNCHANGED <<events, call, error, log, snap, registered, regAtCall, late,
                   carried, tried, everInvoked, onlyOn, nests, before, afterAbort,
                   second>>

\* emitter.once(type, cb), emitter.removeListener(type, cb) or
\* emitter.removeAllListeners(type): the property
\* is undefined on the instance and on Emitter.prototype, so the call throws
\* before anything is done.
CallUndefined(m, type, cb) ==
    /\ stack = <<>>
    /\ m \notin Methods
    /\ call' = [op |-> m, type |-> type, cb |-> cb, args |-> <<>>]
    /\ outcome' = "threw"
    /\ error' = "TypeError"
    /\ ret' = "none"
    /\ log' = <<>>
    /\ snap' = events[type].arr
    /\ regAtCall' = registered[type]
    /\ carried' = {}
    /\ tried' = IF tried.op = m /\ tried.type = type /\ tried.cb = cb
                THEN [tried EXCEPT !.n = 2]
                ELSE [op |-> m, type |-> type, cb |-> cb, n |-> 1, fires |-> 0,
                      had |-> Len(registered[type])]
    /\ onlyOn' = FALSE
    /\ before' = events
    /\ afterAbort' = FALSE
    /\ self' = "A"
    /\ UNCHANGED others
    /\ UNCHANGED <<events, stack, registered, late, everInvoked, pending, nests,
                   peer, peerRegistered>>

\* second.on(type, cb): on called on the second instance.
CallOnPeer(type, cb) ==
    /\ stack = <<>>
    /\ TotalAll < MaxListeners
    /\ LET r == On(Registry("B"), type, cb)
       IN /\ IF ObjOf("B") = "A"
             THEN events' = r.events /\ UNCHANGED peer
             ELSE peer' = r.events /\ UNCHANGED events
          /\ error' = r.error
          /\ outcome' = IF r.error = "none" THEN "returned" ELSE "threw"
          /\ ret' = IF r.error = "none" THEN "undefined" ELSE "none"
          /\ peerRegistered' = IF r.error = "none"
                               THEN [peerRegistered EXCEPT ![type] = Append(@, cb)]
                               ELSE peerRegistered
    /\ call' = [op |-> "on", type |-> type, cb |-> cb, args |-> <<>>]
    /\ log' = OnInvokes(type, cb)
    /\ everInvoked' = (everInvoked \/ OnInvokes(type, cb) # <<>>)
    /\ snap' = Registry("B")[type].arr
    /\ regAtCall' = peerRegistered[type]
    /\ carried' = {}
    /\ before' = events
    /\ afterAbort' = FALSE
    /\ self' = "B"
    /\ UNCHANGED others
    /\ UNCHANGED <<stack, registered, late, tried, onlyOn, pending, nests>>

\* second.emit(type, ...args): emit called on the second instance.
CallEmitPeer(type, args) ==
    /\ stack = <<>>
    /\ TotalAll + Adds(Registry("B"), type) <= MaxListeners
    /\ call' = [op |-> "emit", type |-> type, cb |-> "f1", args |-> args]
    /\ log' = <<>>
    /\ snap' = Registry("B")[type].arr
    /\ regAtCall' = peerRegistered[type]
    /\ carried' = {}
    /\ before' = events
    /\ afterAbort' = FALSE
    /\ self' = "B"
    /\ nests' = <<>>
    /\ onlyOn' = FALSE
    /\ IF ~EmitGuard(Registry("B"), type)
       THEN /\ outcome' = "returned"
            /\ error' = "none"
            /\ ret' = "undefined"
            /\ UNCHANGED stack
       ELSE IF Get(Registry("B"), type).tag # "array"
       THEN /\ outcome' = "threw"
            /\ error' = "TypeError"
            /\ ret' = "none"
            /\ UNCHANGED stack
       ELSE /\ outcome' = EmitRunning
            /\ error' = "none"
            /\ ret' = "none"
            /\ stack' = <<Frame(type, Registry("B")[type].arr, args)>>
    /\ UNCHANGED others
    /\ UNCHANGED <<events, registered, late, tried, everInvoked, pending, peer,
                   peerRegistered>>

Next ==
    \/ \E type \in EventIds, cb \in Callbacks : CallOn(type, cb)
    \/ \E type \in EventIds, args \in ArgLists : CallEmit(type, args)
    \/ Invoke
    \/ Return

Spec == Init /\ [][Next]_vars

\* The same emitter with a caller that registers listeners that return or
\* throw and also tries the methods the prototype does not define.
NextApi ==
    \/ \E type \in EventIds, cb \in ApiCallbacks : CallOn(type, cb)
    \/ \E type \in EventIds, args \in ArgLists : CallEmit(type, args)
    \/ Invoke
    \/ Return
    \/ \E m \in MethodNames, type \in EventIds, cb \in UndefCallbacks :
          CallUndefined(m, type, cb)

SpecApi == Init /\ [][NextApi]_vars

\* Two instances made by the constructor, used by one caller.
NextTwo ==
    \/ Next
    \/ \E type \in EventIds, cb \in PeerCallbacks : CallOnPeer(type, cb)
    \/ \E type \in EventIds, args \in ArgLists : CallEmitPeer(type, args)

SpecTwo == Init /\ [][NextTwo]_vars

----------------------------------------------------------------------------
(* Specifications of the other programs *)

NextRoute == \E url \in Urls : Request(url)

SpecRoute == Init /\ [][NextRoute]_vars

NextSubmit ==
    \/ \E method \in HttpMethods, url \in SubmitUrls, chunks \in Bodies :
          Arrive(method, url, chunks)
    \/ Data
    \/ EndEvent

SpecSubmit == Init /\ [][NextSubmit]_vars

NextFs == Run \/ WOpen \/ WWrite \/ WClose \/ AOpen \/ AWrite \/ AClose

SpecFs == Init /\ [][NextFs]_vars

NextUpload ==
    \/ \E v \in Variants : Start(v)
    \/ \E mimetype \in Uploads : Upload(mimetype)
    \/ \E id \in UploadSlots : Filter(id)
    \/ \E id \in UploadSlots : StoreAskName(id)
    \/ \E id \in UploadSlots : StoreNamed(id)
    \/ \E id \in UploadSlots : Route(id)

SpecUpload == Init /\ [][NextUpload]_vars

----------------------------------------------------------------------------
(* Properties *)

EmitCall == call.op = "emit"

\* C1: dispatch order is registration order: the listeners an emit(e) invokes,
\* in order of invocation, are the listeners registered on e in order of
\* registration; a pass that returns has invoked all that were registered
\* before it began.
TheoremC1 ==
    EmitCall =>
        /\ IsPrefix(PassCbs, regAtCall)
        /\ (outcome = "returned" => PassCbs = regAtCall)

WitnessC1 ==
    /\ EmitCall
    /\ outcome = "returned"
    /\ regAtCall = <<"f2", "f1">>
    /\ PassCbs = <<"f2", "f1">>

\* C2: every listener invoked by emit(e, a1, .., an) receives exactly the
\* argument list (a1, .., an).
CexC2 ==
    EmitCall =>
        \A i \in 1..Len(log) : log[i].depth = 1 => log[i].args = call.args

\* C3: emit(e) on a type with no registered listener invokes nothing, does
\* not throw and returns.
CexC3 ==
    (EmitCall /\ regAtCall = <<>>) =>
        /\ outcome = "returned"
        /\ error = "none"
        /\ log = <<>>

\* C4: a listener that throws ends the pass: the listeners before it have
\* run, the error leaves emit towards the caller, and no listener is invoked
\* after it.
TheoremC4 ==
    EmitCall =>
        /\ IsPrefix(PassCbs, snap)
        /\ \A i \in 1..Len(log) :
              log[i].cb = "boom" =>
                  /\ i = Len(log)
                  /\ outcome = "threw"
                  /\ error = "Error"
                  /\ stack = <<>>

WitnessC4 ==
    /\ EmitCall
    /\ call.args # <<>>
    /\ snap = <<"f1", "boom", "f2">>
    /\ outcome = "threw"
    /\ error = "Error"
    /\ PassCbs = <<"f1", "boom">>

\* C5: a listener registered on e by a listener of a running emit(e) is not
\* invoked by that pass (the pass invokes what the array held when it began
\* and nothing else) and is invoked by the caller's next emit(e).
TheoremC5 ==
    EmitCall =>
        /\ IsPrefix(PassCbs, snap)
        /\ \A i \in late[call.type] : i > Len(snap)
        /\ (outcome = "returned" =>
               /\ PassCbs = snap
               /\ \A i \in carried : i <= Len(PassCbs) /\ PassCbs[i] = "f2")

WitnessC5 ==
    /\ EmitCall
    /\ outcome = "returned"
    /\ snap = <<"adder", "f2">>
    /\ carried = {2}
    /\ PassCbs = <<"adder", "f2">>
    /\ late[call.type] = {3}
    /\ events[call.type].arr = <<"adder", "f2", "f2">>

\* C6: registering a listener that is already registered on e adds one more
\* entry, and an emit(e) invokes a listener as many times as it was
\* registered: twice when registered twice.
TheoremC6 ==
    /\ (call.op = "on" /\ outcome = "returned") =>
           Count(events[call.type].arr, call.cb) = Count(snap, call.cb) + 1
    /\ (EmitCall /\ outcome = "returned") =>
           \A cb \in Callbacks : Count(PassCbs, cb) = Count(regAtCall, cb)

WitnessC6 ==
    /\ EmitCall
    /\ outcome = "returned"
    /\ regAtCall = <<"f1", "f1">>
    /\ Count(PassCbs, "f1") = 2

\* C7: after registerOnce(e, f), with f not otherwise registered on e, the
\* first emit(e) invokes f once and every later emit(e) does not invoke it.
CexC7 ==
    (/\ tried.op = "once"
     /\ Count(registered[tried.type], tried.cb) = 0
     /\ EmitCall
     /\ call.type = tried.type
     /\ outcome = "returned") =>
        Count(PassCbs, tried.cb) = (IF tried.fires = 1 THEN 1 ELSE 0)

\* C8: after register(e, f), unregister(e, f) returns true the first time
\* and false the second time, and a following emit(e) invokes nothing.
CexC8 ==
    (tried.op = "removeListener" /\ registered[tried.type] = <<tried.cb>>) =>
        /\ (call.op = "removeListener" =>
               /\ outcome = "returned"
               /\ ret = (IF tried.n = 1 THEN "true" ELSE "false"))
        /\ (EmitCall /\ call.type = tried.type /\ outcome # "running" =>
               /\ outcome = "returned"
               /\ log = <<>>)

\* C9: on never invokes a listener and never starts a dispatch: while the
\* caller has called nothing but on, no listener has been invoked.
TheoremC9 ==
    /\ (call.op = "on" => log = <<>> /\ stack = <<>>)
    /\ (onlyOn => ~everInvoked)

WitnessC9 ==
    /\ onlyOn
    /\ call.op = "on"
    /\ outcome = "returned"
    /\ Total(events) = MaxListeners
    /\ ~everInvoked

\* C10: on(type, cb) returns normally for every type, and cb is then the
\* last entry of the array stored under type.
CexC10 ==
    call.op = "on" =>
        /\ outcome = "returned"
        /\ error = "none"
        /\ events[call.type].tag = "array"
        /\ events[call.type].arr = Append(snap, call.cb)

\* C11: every key present in this.events maps to a non-empty sequence of
\* listeners.
CexC11 ==
    \A e \in EventIds :
        events[e].tag # "nokey" =>
            /\ events[e].tag = "array"
            /\ events[e].arr # <<>>

\* C12: on(e, f) appends f at the end of e's sequence, creating it if absent:
\* every call makes the sequence one longer and keeps the entries before it,
\* and the stored sequence is the list of listeners passed to on(e, .) in
\* call order.
CexC12 ==
    /\ \A e \in EventIds :
          /\ registered[e] # <<>> => events[e].tag = "array"
          /\ events[e].arr = registered[e]
    /\ call.op = "on" =>
          /\ Len(events[call.type].arr) = Len(snap) + 1
          /\ IsPrefix(snap, events[call.type].arr)
          /\ events[call.type].arr[Len(snap) + 1] = call.cb

\* C13: emit is synchronous: when the caller's emit(e) has returned, every
\* listener that was in e's array when it began has run and finished, no
\* forEach is left active and so no listener of the pass runs afterwards.
TheoremC13 ==
    (EmitCall /\ outcome = "returned") =>
        /\ stack = <<>>
        /\ pending = <<>>
        /\ PassCbs = snap

WitnessC13 ==
    /\ EmitCall
    /\ outcome = "returned"
    /\ Len(snap) = MaxListeners
    /\ PassCbs = snap
    /\ stack = <<>>

\* C14: instances do not share events: what is registered on one instance
\* never shows in the other's mapping, a call on the second instance leaves
\* the first one's mapping as it was, and an emit on the second instance
\* invokes only listeners registered on the second instance.
TheoremC14 ==
    /\ \A e \in EventIds :
          /\ events[e].arr = registered[e]
          /\ peer[e].arr = peerRegistered[e]
    /\ self = "B" => events = before
    /\ (self = "B" /\ EmitCall) =>
          /\ IsPrefix(PassCbs, peerRegistered[call.type])
          /\ \A i \in 1..Len(log) : log[i].cb \in Range(peerRegistered[log[i].type])

WitnessC14 ==
    /\ self = "B"
    /\ EmitCall
    /\ outcome = "returned"
    /\ registered[call.type] = <<"f1", "boom">>
    /\ peerRegistered[call.type] = <<"f2">>
    /\ PassCbs = <<"f2">>

AbortedEmit == EmitCall /\ self = "A" /\ outcome = "threw" /\ error = "Error"

\* The listeners of the call that ran on(type, .) before the call ended.
AdderRuns(type) ==
    Cardinality({i \in 1..Len(log) : log[i].cb = "adder" /\ log[i].type = type})

\* C15 as stated: after an emit(e) that a throwing listener aborted, the
\* mapping is the same as before the call, and the next emit(e) starts again
\* from the first listener and invokes the listeners in registration order.
CexC15 ==
    /\ AbortedEmit => events = before
    /\ (EmitCall /\ afterAbort /\ outcome # "running") =>
          /\ IsPrefix(PassCbs, regAtCall)
          /\ snap # <<>> => (PassCbs # <<>> /\ PassCbs[1] = snap[1])

\* C15 as amended: after an emit(e) that a throwing listener aborted, the
\* mapping is the same as before the call except for the entries that the
\* listeners which ran before the throw registered themselves (each at the
\* end of its array), and the next emit(e) starts again from the first
\* listener and invokes the listeners in registration order.
TheoremC15 ==
    /\ AbortedEmit =>
          \A e \in EventIds :
              /\ events[e].tag = before[e].tag
              /\ IsPrefix(before[e].arr, events[e].arr)
              /\ Len(events[e].arr) = Len(before[e].arr) + AdderRuns(e)
    /\ (EmitCall /\ afterAbort /\ outcome # "running") =>
          /\ IsPrefix(PassCbs, regAtCall)
          /\ snap # <<>> => (PassCbs # <<>> /\ PassCbs[1] = snap[1])

WitnessC15 ==
    /\ EmitCall
    /\ afterAbort
    /\ outcome = "threw"
    /\ error = "Error"
    /\ snap = <<"f1", "boom", "f2">>
    /\ PassCbs = <<"f1", "boom">>
    /\ events = before

\* C16: "error" is an identifier like any other: emit("error") with no
\* listener registered invokes nothing, throws nothing and returns, and with
\* listeners it invokes them in registration order, all of them when it
\* returns.
TheoremC16 ==
    (EmitCall /\ self = "A" /\ call.type = "error") =>
        /\ regAtCall = <<>> =>
              /\ outcome = "returned"
              /\ error = "none"
              /\ log = <<>>
              /\ stack = <<>>
        /\ IsPrefix(PassCbs, regAtCall)
        /\ outcome = "returned" => PassCbs = regAtCall

WitnessC16 ==
    /\ EmitCall
    /\ call.type = "error"
    /\ regAtCall = <<>>
    /\ registered["greet"] # <<>>
    /\ outcome = "returned"
    /\ log = <<>>

\* C17: unregisterAll(e) never raises, leaves e without listeners and every
\* other identifier as it was, and the emit(e) that follows, nothing having
\* been registered on e in between, invokes nothing.  (Called without an
\* argument it is the same property lookup on the instance.)
CexC17 ==
    /\ call.op = "removeAllListeners" =>
          /\ outcome = "returned"
          /\ error = "none"
          /\ events[call.type].arr = <<>>
          /\ \A e \in EventIds \ {call.type} : events[e] = before[e]
    /\ (/\ tried.op = "removeAllListeners"
        /\ EmitCall
        /\ call.type = tried.type
        /\ tried.fires = 1
        /\ Len(regAtCall) = tried.had
        /\ outcome # "running") =>
          /\ outcome = "returned"
          /\ log = <<>>

\* C18: an emit(e) in which no listener throws invokes every entry that e's
\* array held when it began exactly once, in place (as many invocations as
\* the array was long), and a listener that is still running has no later
\* listener of its own pass begun after it.
TheoremC18 ==
    /\ (EmitCall /\ self = "A" /\ outcome = "returned") =>
          /\ Len(PassCbs) = Len(snap)
          /\ \A i \in 1..Len(snap) : PassCbs[i] = snap[i]
    /\ \A p \in 1..Len(pending) :
          /\ pending[p] \in 1..Len(log)
          /\ \A j \in (pending[p] + 1)..Len(log) : log[j].depth > log[pending[p]].depth

WitnessC18 ==
    /\ EmitCall
    /\ outcome = "returned"
    /\ snap = <<"f1", "f2", "f1">>
    /\ Len(log) = 3
    /\ PassCbs = <<"f1", "f2", "f1">>

\* The invocations made after position i of log by the emit that the
\* listener invoked there called: the entries that follow i as long as they
\* are deeper than i.
InnerEnd(i) ==
    LET stop == {j \in (i + 1)..Len(log) : log[j].depth <= log[i].depth}
    IN IF stop = {} THEN Len(log)
       ELSE (CHOOSE j \in stop : \A x \in stop : j <= x) - 1

Inner(i) == SubSeq(log, i + 1, InnerEnd(i))

\* C19: a listener may call emit while a pass is running: the pass of the
\* inner emit(e2) invokes e2's listeners in order and has invoked all of them
\* before the next listener of the outer pass begins, and the outer pass then
\* still invokes all its listeners in registration order.
TheoremC19 ==
    EmitCall =>
        /\ \A n \in 1..Len(nests) :
              LET i  == nests[n].at
                  in == Inner(i)
              IN /\ log[i].cb = "firer"
                 /\ Len(in) <= Len(nests[n].snap)
                 /\ \A j \in 1..Len(in) :
                       /\ in[j].type = FireTarget
                       /\ in[j].depth = log[i].depth + 1
                       /\ in[j].cb = nests[n].snap[j]
                 /\ (InnerEnd(i) < Len(log) \/ outcome = "returned") =>
                       Len(in) = Len(nests[n].snap)
        /\ IsPrefix(PassCbs, regAtCall)
        /\ outcome = "returned" => PassCbs = regAtCall

WitnessC19 ==
    /\ EmitCall
    /\ outcome = "returned"
    /\ snap = <<"firer", "f1">>
    /\ Len(nests) = 1
    /\ nests[1].snap = <<"f2">>
    /\ Len(log) = 3
    /\ log[2].cb = "f2" /\ log[2].depth = 2
    /\ log[3].cb = "f1" /\ log[3].depth = 1

\* C20: event ids are isolated: a call on(e, f) leaves the value stored under
\* every other event id as it was before the call, and emit(e) invokes, in
\* its own pass, listeners registered under e only (every invocation made
\* while it runs is of a listener registered under the id being emitted).
TheoremC20 ==
    /\ (call.op = "on" /\ self = "A") =>
          \A e \in EventIds \ {call.type} : events[e] = before[e]
    /\ (EmitCall /\ self = "A") =>
          /\ \A i \in 1..Len(log) :
                /\ log[i].cb \in Range(registered[log[i].type])
                /\ log[i].depth = 1 => log[i].type = call.type
          /\ \A i \in 1..Len(PassCbs) : PassCbs[i] \in Range(regAtCall)

WitnessC20 ==
    /\ EmitCall
    /\ call.type = "greet"
    /\ outcome = "returned"
    /\ registered["greet"] = <<"f1">>
    /\ registered["error"] = <<"f2", "boom">>
    /\ PassCbs = <<"f1">>
    /\ Len(log) = 1

\* C21: emit only reads the registry: while and after emit(e) the value
\* stored under every event id is the one stored before the call, extended by
\* the entries that invoked listeners registered themselves (one per run of
\* such a listener); with no such listener the mapping is unchanged, so an
\* emit of a type that has no key creates none and the listeners of e stay
\* in place and in order.
TheoremC21 ==
    (EmitCall /\ self = "A") =>
        /\ \A e \in EventIds :
              /\ events[e].tag = before[e].tag
              /\ IsPrefix(before[e].arr, events[e].arr)
              /\ Len(events[e].arr) = Len(before[e].arr) + AdderRuns(e)
        /\ (\A i \in 1..Len(log) : log[i].cb # "adder") => events = before
        /\ before[call.type].tag = "nokey" =>
              /\ events[call.type] = NoKey
              /\ log = <<>>

WitnessC21 ==
    /\ EmitCall
    /\ self = "A"
    /\ call.type = "error"
    /\ outcome = "returned"
    /\ events["error"].tag = "nokey"
    /\ events["greet"] = ArrayOf(<<"f1", "f2">>)
    /\ events = before

\* C22 as stated: a request whose URL is /login or /signup is answered with
\* status 200, content type text/plain and the body 'Login Page' or
\* 'Signup Page' respectively.
CexC22 ==
    \A i \in 1..Len(responses) :
        responses[i].url \in {"/login", "/signup"} =>
            /\ responses[i].res.status = 200
            /\ responses[i].res.ctype = "text/plain"
            /\ responses[i].res.body =
                  (IF responses[i].url = "/login" THEN "Login Page" ELSE "Signup Page")

\* C23: for every request URL the handler writes the response head exactly
\* once and ends the response exactly once; the status is 404 with content
\* type text/html and the not-found page exactly when the URL equals none of
\* the routes the handler compares it with, and 200 otherwise.
TheoremC23 ==
    \A i \in 1..Len(responses) :
        LET r == responses[i].res
        IN /\ r.heads = 1
           /\ r.ends = 1
           /\ r.status \in {200, 404}
           /\ r.status = 404 <=> responses[i].url \notin Routes
           /\ r.status = 404 =>
                 /\ r.ctype = "text/html"
                 /\ r.body = "<h1>404 Page Not Found</h1>"

WitnessC23 ==
    /\ Len(responses) = MaxRequests
    /\ responses[1].url = "/missing" /\ responses[1].res.status = 404
    /\ responses[2].url = "/api/user" /\ responses[2].res.status = 200
    /\ responses[3].url = "/" /\ responses[3].res.ends = 1

RECURSIVE Concat(_)
\* The chunks of q converted to strings and joined, in order.
Concat(q) == IF q = <<>> THEN <<>> ELSE ChunkToString(Head(q)) \o Concat(Tail(q))

\* C24: in the POST /submit handler nothing of the response is written while
\* chunks are still arriving, the response is written by the 'end' listener
\* only, and the body it uses is the chunks received through 'data', in
\* arrival order, each once: all the chunks the client sent.
TheoremC24 ==
    IsSubmit(sreq.method, sreq.url) =>
        /\ got \o wire = sent
        /\ body = Concat(got)
        /\ (sreq.phase = "open" \/ wire # <<>>) => (sres.heads = 0 /\ sres.ends = 0)
        /\ sres.heads > 0 =>
              /\ sreq.phase = "done"
              /\ wire = <<>>
              /\ got = sent
              /\ sres.body.data = Concat(sent)

WitnessC24 ==
    /\ IsSubmit(sreq.method, sreq.url)
    /\ sreq.phase = "done"
    /\ sent = <<(<<123>>), (<<125>>)>>
    /\ got = sent
    /\ sres.heads = 1
    /\ sres.ends = 1
    /\ sres.body.data = <<"{", "}">>

\* C25 as stated: every request receives exactly one ended response: once
\* the body stream of a POST /submit has ended and its 'end' listener has
\* run, the response is a 200 JSON response that has ended, whatever the body
\* text is, and every other method or URL has got a 404 response.
CexC25 ==
    /\ sres.ends <= 1
    /\ sreq.phase \in {"ended", "done"} =>
          /\ sres.heads = 1
          /\ sres.ends = 1
          /\ sres.status = (IF IsSubmit(sreq.method, sreq.url) THEN 200 ELSE 404)

\* C26 as stated: writeFile and appendFile are issued back to back on the
\* same file, and whatever the interleaving of the two operations, once both
\* have completed the content of input.txt is the written text followed by
\* the appended text.
CexC26 ==
    (wpc = "done" /\ apc = "done") =>
        /\ file.exists
        /\ file.data = WriteText \o AppendText

\* C27 as stated: every POST /upload that passes the upload middleware
\* receives a response from the route handler, in both applications: once
\* the route handler has run, a response has been sent by it.
CexC27 ==
    \A id \in UploadIds :
        up[id].phase = "handled" =>
            /\ ures[id].by = "handler"
            /\ ures[id].status # 0

\* C28 as stated: the file filter accepts a file (callback called with no
\* error and true) if and only if its MIME type is image/jpg or image/jpeg,
\* for every other MIME type it calls the callback exactly once with an Error
\* and false, and the upload object of the /upload route applies this filter
\* in both applications.
CexC28 ==
    \A id \in UploadIds :
        (up[id].mimetype # "none" /\ up[id].phase # "filter") =>
            /\ Len(filterCalls[id]) = 1
            /\ filterCalls[id][1].accept <=> up[id].mimetype \in AllowedMimeTypes
            /\ filterCalls[id][1].accept => filterCalls[id][1].err = "null"
            /\ ~filterCalls[id][1].accept => filterCalls[id][1].err # "null"
            /\ up[id].phase \in {"store", "naming", "route", "handled"} =>
                  filterCalls[id][1].accept

====
